---------------------------- MODULE Spec2Model ----------------------------
(***************************************************************************)
(* Model of random_forrest_close_direction.ipynb: the target labelling     *)
(* cell, create_ohlc_features, predict/backtest and the macro merge.       *)
(*                                                                         *)
(* A DataFrame is a sequence of rows; a row is a function from column      *)
(* names to values and carries its pandas index label under "index".       *)
(* A float is an extended rational <<n, d>>: d > 0 for a finite value in   *)
(* lowest terms, <<0, 0>> for NaN, <<1, 0>> and <<-1, 0>> for +inf, -inf.  *)
(* Arithmetic is exact: rounding of IEEE doubles is not modelled.          *)
(***************************************************************************)
EXTENDS Integers, Sequences, FiniteSets, TLC

(* ----------------------------- bounds --------------------------------- *)
\* longest price series run through backtest
MaxLen == 5
\* longest price series run through create_ohlc_features
MaxRows == 3
\* backtest is called with start in 0..MaxStart and step in 1..MaxStep
MaxStart == 4
MaxStep == 2

(* ------------------------ float arithmetic ---------------------------- *)
NaN == <<0, 0>>
Zero == <<0, 1>>
One == <<1, 1>>
Abs(n) == IF n < 0 THEN -n ELSE n
Sign(n) == IF n > 0 THEN 1 ELSE IF n < 0 THEN -1 ELSE 0

RECURSIVE GCD(_, _)
GCD(a, b) == IF b = 0 THEN a ELSE GCD(b, a % b)

\* the float n/d
Float(n, d) ==
    IF d = 0 THEN <<Sign(n), 0>>
    ELSE LET g == GCD(Abs(n), Abs(d))
         IN  <<(Sign(d) * n) \div g, Abs(d) \div g>>

IsNaN(x) == x = NaN
IsFinite(x) == x[2] # 0

Neg(x) == <<-x[1], x[2]>>

Add(x, y) ==
    IF IsNaN(x) \/ IsNaN(y) THEN NaN
    ELSE IF x[2] = 0 /\ y[2] = 0 THEN (IF x[1] = y[1] THEN x ELSE NaN)
    ELSE IF x[2] = 0 THEN x
    ELSE IF y[2] = 0 THEN y
    ELSE Float(x[1] * y[2] + y[1] * x[2], x[2] * y[2])

Sub(x, y) == Add(x, Neg(y))

Mul(x, y) ==
    IF IsNaN(x) \/ IsNaN(y) THEN NaN
    ELSE Float(x[1] * y[1], x[2] * y[2])

Div(x, y) ==
    IF IsNaN(x) \/ IsNaN(y) THEN NaN
    ELSE Float(x[1] * y[2] * (IF y[1] < 0 THEN -1 ELSE 1), x[2] * Abs(y[1]))

\* x > y; any comparison with NaN is False
Gt(x, y) ==
    IF IsNaN(x) \/ IsNaN(y) THEN FALSE
    ELSE IF x[2] = 0 /\ y[2] = 0 THEN x[1] > y[1]
    ELSE x[1] * y[2] > y[1] * x[2]

Lt(x, y) == Gt(y, x)

(* --------------------------- DataFrame -------------------------------- *)
\* df[name]
Col(df, name) == <<>> \o [r \in 1..Len(df) |-> df[r][name]]

\* df[name] = col
WithCol(df, name, col) ==
    <<>> \o [r \in 1..Len(df) |-> (name :> col[r]) @@ df[r]]

Min(a, b) == IF a < b THEN a ELSE b
Max(a, b) == IF a > b THEN a ELSE b

\* a Python slice bound on a sequence of n items
SliceIdx(n, a) == IF a < 0 THEN Max(n + a, 0) ELSE Min(a, n)

\* data.iloc[a:b]
ILoc(data, a, b) ==
    SubSeq(data, SliceIdx(Len(data), a) + 1, SliceIdx(Len(data), b))

\* Series.shift(k): the value k rows earlier, NaN where there is none
Shift(s, k) ==
    [t \in 1..Len(s) |-> IF t - k \in 1..Len(s) THEN s[t - k] ELSE NaN]

\* the date of the r-th trading day of the downloaded series
PriceDate(r) == 2 * r - 1

\* yf.download(...), reset_index, columns renamed: one row per trading day
PriceTable(closes) ==
    <<>> \o [r \in 1..Len(closes) |->
                ("index" :> r - 1) @@ ("date" :> PriceDate(r)) @@ ("close" :> closes[r])]

\* a close price is one of three levels, or missing
CloseSet == {NaN} \cup {<<v, 1>> : v \in {1, 2, 3}}
\* the price series of at most n rows
CloseSeries(n) == UNION {[1..k -> CloseSet] : k \in 1..n}

(* ------------------------- target labelling --------------------------- *)
\* (df['tomorrow'] > df['close']).astype(int)
TargetCol(df) ==
    [r \in 1..Len(df) |-> IF Gt(df[r]["tomorrow"], df[r]["close"]) THEN 1 ELSE 0]

\* the Create Targets cell
CreateTargetsDf(df) ==
    LET d1 == WithCol(df, "tomorrow", Shift(Col(df, "close"), -1))
    IN  WithCol(d1, "target", TargetCol(d1))

(* ------------------------ rolling statistics -------------------------- *)
RECURSIVE SumRange(_, _, _)
\* s[a] + ... + s[b]
SumRange(s, a, b) == IF a > b THEN Zero ELSE Add(s[a], SumRange(s, a + 1, b))

\* rolling(h) has a value at row t: the window of the h rows ending at t is
\* inside the series and holds h observations (min_periods = h)
WindowFull(s, t, h) == t >= h /\ \A u \in (t - h + 1)..t : IsFinite(s[u])

\* Series.rolling(h).sum()
RollingSum(s, h) ==
    [t \in 1..Len(s) |->
        IF WindowFull(s, t, h) THEN SumRange(s, t - h + 1, t) ELSE NaN]

\* Series.rolling(h).mean()
RollingMean(s, h) ==
    [t \in 1..Len(s) |-> Div(RollingSum(s, h)[t], <<h, 1>>)]

\* Series.rolling(h).var(): the sample variance (ddof = 1), NaN for h = 1
RollingVar(s, h) ==
    [t \in 1..Len(s) |->
        IF WindowFull(s, t, h) /\ h > 1
        THEN LET sum == SumRange(s, t - h + 1, t)
                 sq == SumRange([u \in 1..Len(s) |-> Mul(s[u], s[u])], t - h + 1, t)
             IN  Div(Sub(Mul(<<h, 1>>, sq), Mul(sum, sum)), <<h * (h - 1), 1>>)
        ELSE NaN]

\* p + c * sqrt(q): a square root is kept as its radicand
Surd(p, c, q) == IF IsNaN(p) \/ IsNaN(q) THEN <<NaN, 0, NaN>> ELSE <<p, c, q>>

\* Series.rolling(h).std()
RollingStd(s, h) == [t \in 1..Len(s) |-> Surd(Zero, 1, RollingVar(s, h)[t])]

\* Series.diff()
Diff(s) == [t \in 1..Len(s) |-> Sub(s[t], Shift(s, 1)[t])]

RECURSIVE FFill(_, _)
\* Series.ffill() at row t: the last observation at or before t
FFill(s, t) ==
    IF t < 1 THEN NaN ELSE IF IsNaN(s[t]) THEN FFill(s, t - 1) ELSE s[t]

\* Series.pct_change(): forward-fill, then the ratio to the previous row - 1
PctChange(s) ==
    [t \in 1..Len(s) |-> Sub(Div(FFill(s, t), FFill(s, t - 1)), One)]

RECURSIVE EwmState(_, _, _)
\* Series.ewm(span, adjust=False) after row t: <<weighted average, old_wt>>
EwmState(s, t, span) ==
    IF t = 1 THEN <<s[1], One>>
    ELSE LET prev == EwmState(s, t - 1, span)
             alpha == Float(2, span + 1)
             old_wt == Mul(prev[2], Sub(One, alpha))
         IN  IF ~IsNaN(prev[1])
             THEN IF ~IsNaN(s[t])
                  THEN <<IF prev[1] # s[t]
                         THEN Div(Add(Mul(old_wt, prev[1]), Mul(alpha, s[t])),
                                  Add(old_wt, alpha))
                         ELSE prev[1],
                         One>>
                  ELSE <<prev[1], old_wt>>
             ELSE IF ~IsNaN(s[t]) THEN <<s[t], prev[2]>> ELSE prev

\* mutant of EwmMean: the mean is missing until span observations are seen
EwmMeanMinPeriods(s, span) ==
    [t \in 1..Len(s) |-> IF t < span THEN NaN ELSE EwmState(s, t, span)[1]]

\* Series.ewm(span=h, adjust=False).mean()
EwmMean(s, span) == [t \in 1..Len(s) |-> EwmState(s, t, span)[1]]

(* ---------------------- create_ohlc_features -------------------------- *)
Hundred == <<100, 1>>

\* mutant of CloseRatioCol: the window ends at the row before the current one
CloseRatioExclusive(close, h) ==
    [t \in 1..Len(close) |-> Div(close[t], Shift(RollingMean(close, h), 1)[t])]

\* df["close"] / rolling_averages["close"]
CloseRatioCol(close, h) ==
    [t \in 1..Len(close) |-> Div(close[t], RollingMean(close, h)[t])]

\* mutant of TrendCol: the rolling sum is taken without the shift
TrendNoShift(target, h) == RollingSum(target, h)

\* df["target"].shift(1).rolling(horizon).sum()
TrendCol(target, h) == RollingSum(Shift(target, 1), h)

\* mutant of MomentumCol: the lag looks horizon rows ahead
MomentumAhead(close, h) ==
    [t \in 1..Len(close) |-> Sub(Shift(close, -h)[t], close[t])]

\* df["close"] - df["close"].shift(horizon)
MomentumCol(close, h) ==
    [t \in 1..Len(close) |-> Sub(close[t], Shift(close, h)[t])]

\* 100 - (100 / (1 + gain / loss))
RSICol(close, h) ==
    LET delta == Diff(close)
        up == [t \in 1..Len(close) |->
                  IF Gt(delta[t], Zero) THEN delta[t] ELSE Zero]
        down == [t \in 1..Len(close) |->
                    Neg(IF Lt(delta[t], Zero) THEN delta[t] ELSE Zero)]
        gain == RollingMean(up, h)
        loss == RollingMean(down, h)
    IN  [t \in 1..Len(close) |->
            Sub(Hundred, Div(Hundred, Add(One, Div(gain[t], loss[t]))))]

\* rolling_averages["close"] + k * rolling_std
BollingerCol(close, h, k) ==
    [t \in 1..Len(close) |->
        Surd(RollingMean(close, h)[t], k, RollingVar(close, h)[t])]

\* df["close"].pct_change().rolling(horizon).sum()
CumulativeReturnCol(close, h) == RollingSum(PctChange(close), h)

\* the names of the nine predictors of a horizon, in the order they are listed
HorizonPredictors(h) ==
    LET n == ToString(h)
    IN  <<"Close_Ratio_" \o n, "Trend_" \o n, "Volatility_" \o n,
          "Momentum_" \o n, "EMA_" \o n, "RSI_" \o n,
          "Bollinger_Upper_" \o n, "Bollinger_Lower_" \o n,
          "Cumulative_Return_" \o n>>

\* df["target"] as floats
TargetFloats(df) == <<>> \o [r \in 1..Len(df) |-> <<df[r]["target"], 1>>]

\* the body of the loop for one horizon that is not skipped
AddHorizon(df, h) ==
    LET close == Col(df, "close")
        names == HorizonPredictors(h)
        cols == <<CloseRatioCol(close, h),
                  TrendCol(TargetFloats(df), h),
                  RollingStd(close, h),
                  MomentumCol(close, h),
                  EwmMean(close, h),
                  RSICol(close, h),
                  BollingerCol(close, h, 2),
                  BollingerCol(close, h, -2),
                  CumulativeReturnCol(close, h)>>
    IN  <<>> \o [r \in 1..Len(df) |->
                    [c \in {names[j] : j \in 1..9} |->
                        cols[CHOOSE j \in 1..9 : names[j] = c][r]] @@ df[r]]

\* mutant of Skipped: a horizon one longer than the series is computed
SkippedOffByOne(df, h) == Len(df) + 1 < h

\* if len(df) < horizon: continue
Skipped(df, h) == Len(df) < h

RECURSIVE OhlcLoop(_, _, _)
\* for horizon in horizons: ...
OhlcLoop(df, predictors, hs) ==
    IF hs = <<>> THEN [df |-> df, predictors |-> predictors]
    ELSE LET h == Head(hs)
         IN  IF Skipped(df, h) THEN OhlcLoop(df, predictors, Tail(hs))
             ELSE OhlcLoop(AddHorizon(df, h), predictors \o HorizonPredictors(h),
                           Tail(hs))

\* pd.isna of a float or of a p + c*sqrt(q) value
IsNA(v) == IF Len(v) = 3 THEN IsNaN(v[1]) ELSE IsNaN(v)

\* mutant of KeptByDropna: how="any"
KeptByDropnaAny(row, subset) == \A j \in DOMAIN subset : ~IsNA(row[subset[j]])

\* the row survives dropna(subset, how="all"): some subset column is not NA
KeptByDropna(row, subset) == \E j \in DOMAIN subset : ~IsNA(row[subset[j]])

\* df.dropna(subset=predictors, how="all")
DropnaAll(df, subset) == SelectSeq(df, LAMBDA row : KeptByDropna(row, subset))

\* create_ohlc_features(df, horizons): (df, predictors)
create_ohlc_features(df, hs) ==
    LET done == OhlcLoop(df, <<>>, hs)
    IN  [df |-> DropnaAll(done.df, done.predictors), predictors |-> done.predictors]

\* the horizon lists create_ohlc_features is called with: ascending, of at
\* most two horizons
MaxHorizon == MaxRows + 1
HorizonLists ==
    {<<>>} \cup {<<h>> : h \in 1..MaxHorizon}
           \cup {gh \in (1..MaxHorizon) \X (1..MaxHorizon) : gh[1] < gh[2]}

(* ----------------------------- macro data ----------------------------- *)
\* a date string "<Mon> <Day>, <Year> (<suffix>)": the day it names and the
\* parenthesised suffix
DateString(day, suffix) == [main |-> day, suffix |-> suffix]

\* convert_date_format: the part before " (" parsed as a date
convert_date_format(date_string) == date_string.main

\* the CPI part of the Macro Data cell, on the sheet as read
CpiTable(sheet) ==
    LET date == [r \in 1..Len(sheet) |-> convert_date_format(sheet[r].date)]
    IN  <<>> \o [r \in 1..Len(sheet) |->
                    [date |-> date[r],
                     cpi_announcement |-> 1,
                     cpi_change |-> Sub(sheet[r].forecast, sheet[r].previous),
                     days_until_next_announcement |->
                         IF r < Len(sheet) THEN <<date[r + 1] - date[r], 1>> ELSE NaN]]

\* the Unemployment Rate part of the Macro Data cell, on the sheet as read
UnRateTable(sheet) ==
    LET date == [r \in 1..Len(sheet) |-> convert_date_format(sheet[r].date)]
    IN  <<>> \o [r \in 1..Len(sheet) |->
                    [date |-> date[r],
                     un_announcement |-> 1,
                     unempl_change |-> Sub(sheet[r].forecast, sheet[r].previous),
                     days_until_next_announcement |->
                         IF r < Len(sheet) THEN <<date[r + 1] - date[r], 1>> ELSE NaN]]

\* mutant of InterestRatesTable: the adjacent row is the next one, as in the
\* other two tables
InterestRatesTableForward(sheet) ==
    <<>> \o [r \in 1..Len(sheet) |->
                [date |-> sheet[r].date,
                 interest_announcement |-> 1,
                 interest_change |-> Sub(sheet[r].forecast, sheet[r].previous),
                 next_announcement_date |->
                     IF r < Len(sheet) THEN <<sheet[r + 1].date, 1>> ELSE NaN,
                 days_until_next_announcement |->
                     IF r < Len(sheet) THEN <<sheet[r + 1].date - sheet[r].date, 1>>
                     ELSE NaN]]

\* the Fed rates part of the Macro Data cell: the sheet's dates are dates
\* already (no convert_date_format), the adjacent row is shift(1), the row
\* before, and next_announcement_date is not dropped (NaT as NaN)
InterestRatesTable(sheet) ==
    <<>> \o [r \in 1..Len(sheet) |->
                [date |-> sheet[r].date,
                 interest_announcement |-> 1,
                 interest_change |-> Sub(sheet[r].forecast, sheet[r].previous),
                 next_announcement_date |->
                     IF r > 1 THEN <<sheet[r - 1].date, 1>> ELSE NaN,
                 days_until_next_announcement |->
                     IF r > 1 THEN <<sheet[r - 1].date - sheet[r].date, 1>>
                     ELSE NaN]]

\* the columns a merge with cpi adds to a price row
MacroCols(announcement, change, days) ==
    ("cpi_announcement" :> announcement) @@ ("cpi_change" :> change)
        @@ ("days_until_next_announcement" :> days)

\* mutant of Matching: an event also matches the trading day next to its date
MatchingNearest(row, right) ==
    SelectSeq(right, LAMBDA e : Abs(e.date - row["date"]) <= 1)

\* the rows of the right table whose date equals the row's date
Matching(row, right) == SelectSeq(right, LAMBDA e : e.date = row["date"])

\* the rows left.merge(right, on='date', how='left') gives for one left row
MergedRows(row, right) ==
    LET found == Matching(row, right)
    IN  IF found = <<>> THEN <<MacroCols(NaN, NaN, NaN) @@ row>>
        ELSE [j \in 1..Len(found) |->
                 MacroCols(<<found[j].cpi_announcement, 1>>, found[j].cpi_change,
                           found[j].days_until_next_announcement) @@ row]

RECURSIVE MergeFrom(_, _, _)
MergeFrom(left, right, r) ==
    IF r > Len(left) THEN <<>>
    ELSE MergedRows(left[r], right) \o MergeFrom(left, right, r + 1)

\* left.merge(right, on='date', how='left'): left order kept, a new RangeIndex
MergeLeft(left, right) ==
    LET rows == MergeFrom(left, right, 1)
    IN  <<>> \o [r \in 1..Len(rows) |-> ("index" :> r - 1) @@ rows[r]]

\* the sheets read: at most MaxEvents announcements
MaxEvents == 2
\* announcements fall on the days 1..MaxDate, trading days or not
MaxDate == 4
SheetRows ==
    {[date |-> DateString(d, s), time |-> 0, actual |-> a, forecast |-> f,
      previous |-> <<1, 1>>] :
        d \in 1..MaxDate, s \in {"Oct"}, a \in {<<1, 1>>}, f \in {NaN, <<2, 1>>}}
\* a sheet holds at least one announcement
SheetsOf(rows) == UNION {[1..n -> rows] : n \in 1..MaxEvents}
Sheets == SheetsOf(SheetRows)
\* the Fed Interest Rate sheet: its date cells are dates
RateRows ==
    {[date |-> d, time |-> 0, actual |-> One, forecast |-> <<2, 1>>,
      previous |-> One] : d \in 1..MaxDate}
RateSheets == SheetsOf(RateRows)
UnSheets == SheetsOf({row \in SheetRows : ~IsNaN(row.forecast)})
\* the sheets of one announcement on the first day
OneUnSheet == <<CHOOSE row \in SheetRows :
                    row.date.main = 1 /\ ~IsNaN(row.forecast)>>
OneRateSheet == <<CHOOSE row \in RateRows : row.date = 1>>

(* ----------------------------- backtest ------------------------------- *)
\* the label the classifier, fitted on rows `fitted`, predicts for a row:
\* the classifier is opaque, so a label is kept as what produced it
Label(fitted, row) == [fitted_on |-> fitted, row |-> row]

\* mutant of Combined: the records are numbered from 0 in each fold
CombinedResetIndex(test, clf) ==
    [r \in 1..Len(test) |->
        [index |-> r - 1,
         target |-> test[r]["target"],
         Predictions |-> Label(clf, test[r]["index"])]]

\* predict's return value: target and Predictions side by side on test.index
Combined(test, model) ==
    [r \in 1..Len(test) |->
        [index |-> test[r]["index"],
         target |-> test[r]["target"],
         Predictions |-> Label(model, test[r]["index"])]]

\* mutant of ConcatRaises: an empty list concatenates to an empty table
ConcatNeverRaises(tables) == FALSE
\* pd.concat raises "No objects to concatenate" on an empty list
ConcatRaises(tables) == Len(tables) = 0

RECURSIVE Concat(_)
\* pd.concat of a non-empty list of tables
Concat(tables) ==
    IF Len(tables) = 0 THEN <<>>
    ELSE Head(tables) \o Concat(Tail(tables))

VARIABLES
    pc,               \* the last notebook cell run
    series,           \* the close prices as loaded (history)
    df,               \* the notebook's global table
    bt,               \* backtest's frame: i and all_predictions, with the
                      \* arguments start and step of the last call
    model,            \* the classifier object: the index labels it was last fitted on
    calls,            \* the fit and predict calls made so far (history)
    folds,            \* the train and test slices taken so far (history)
    predictions,      \* the notebook's global `predictions`
    ohlc_predictors,  \* the notebook's global `ohlc_predictors`
    horizons,         \* the horizons create_ohlc_features was called with (history)
    cpi,              \* the notebook's global `cpi`
    un_rate,          \* the notebook's global `un_rate`
    interest_rates,   \* the notebook's global `interest_rates`
    sheets            \* the three sheets as read from the workbook (history)

vars == <<pc, series, df, bt, model, calls, folds, predictions, ohlc_predictors,
          horizons, cpi, un_rate, interest_rates, sheets>>

NoFrame == [pc |-> "idle", start |-> 0, step |-> 1, i |-> 0, all_predictions |-> <<>>]
Unfitted == <<-1>>
NoTable == <<[index |-> -1, target |-> -1, Predictions |-> Label(Unfitted, -1)]>>

\* the Bring data cell has run on a series of at most n rows
Loaded(n) ==
    /\ series \in CloseSeries(n)
    /\ df = PriceTable(series)
    /\ pc = "loaded"
    /\ bt = NoFrame
    /\ model = Unfitted
    /\ calls = <<>>
    /\ folds = <<>>
    /\ predictions = NoTable
    /\ ohlc_predictors = <<>>
    /\ horizons = <<>>
    /\ cpi = <<>>
    /\ un_rate = <<>>
    /\ interest_rates = <<>>
    /\ sheets = <<>>

Init == Loaded(MaxLen)
InitFeatures == Loaded(MaxRows)
InitAnnouncements == Loaded(1) /\ series = <<One>>
InitMacro == Loaded(MaxRows) /\ \A r \in DOMAIN series : series[r] \in {One, <<2, 1>>}

\* the Create Targets cell
CreateTargets ==
    /\ pc = "loaded"
    /\ df' = CreateTargetsDf(df)
    /\ pc' = "labelled"
    /\ UNCHANGED <<series, bt, model, calls, folds, predictions, ohlc_predictors, horizons, cpi, un_rate, interest_rates, sheets>>

\* the Backtesting cell calls backtest(df, model, predictors, start, step)
BacktestCall(start, step) ==
    /\ pc = "labelled"
    /\ pc' = "backtest"
    /\ bt' = [pc |-> "loop", start |-> start, step |-> step, i |-> start,
              all_predictions |-> <<>>]
    /\ UNCHANGED <<series, df, model, calls, folds, predictions, ohlc_predictors, horizons, cpi, un_rate, interest_rates, sheets>>

\* mutant of Fit: a classifier already fitted keeps its earlier fit
FitWarmStart(clf, train) ==
    IF clf = Unfitted THEN Col(train, "index") ELSE clf
\* model.fit(train[predictors], train["target"]) on a classifier built with
\* the default warm_start=False: the fit depends on the train rows only
Fit(clf, train) == Col(train, "index")

\* mutant of Train: the train slice also takes the first test row
TrainLeak == ILoc(df, 0, bt.i + 1)
\* train = data.iloc[0:i]
Train == ILoc(df, 0, bt.i)
\* mutant of Test: the test slice runs one row into the next fold
TestOverlap == ILoc(df, bt.i, bt.i + bt.step + 1)
\* test = data.iloc[i:(i+step)]
Test == ILoc(df, bt.i, bt.i + bt.step)

\* one iteration of backtest's loop: slice, fit, predict, append
BacktestFold ==
    /\ pc = "backtest" /\ bt.pc = "loop"
    /\ bt.i < Len(df)
    /\ LET train == Train
           test == Test
           fitted == Col(train, "index")
       IN  /\ folds' = Append(folds, [i |-> bt.i, train |-> fitted,
                                      test |-> Col(test, "index")])
           /\ model' = Fit(model, train)
           /\ calls' = calls \o <<[op |-> "fit", rows |-> fitted],
                                  [op |-> "predict", rows |-> Col(test, "index")]>>
           /\ bt' = [bt EXCEPT !.i = bt.i + bt.step,
                               !.all_predictions =
                                   Append(@, Combined(test, Fit(model, train)))]
    /\ UNCHANGED <<pc, series, df, predictions, ohlc_predictors, horizons, cpi, un_rate, interest_rates, sheets>>

\* model.fit or model.predict raises in an iteration: nothing catches it, the
\* frame of backtest and its all_predictions are gone
BacktestFoldRaises(inFit) ==
    /\ pc = "backtest" /\ bt.pc = "loop"
    /\ bt.i < Len(df)
    /\ LET fitted == Col(Train, "index")
       IN  /\ folds' = Append(folds, [i |-> bt.i, train |-> fitted,
                                      test |-> Col(Test, "index")])
           /\ model' \in (IF inFit THEN {model, Unfitted} ELSE {Fit(model, Train)})
           /\ calls' = calls \o
                 (IF inFit THEN <<[op |-> "fit", rows |-> fitted]>>
                  ELSE <<[op |-> "fit", rows |-> fitted],
                         [op |-> "predict", rows |-> Col(Test, "index")]>>)
    /\ bt' = [NoFrame EXCEPT !.pc = "raised", !.start = bt.start, !.step = bt.step]
    /\ pc' = "backtest_error"
    /\ UNCHANGED <<series, df, predictions, ohlc_predictors, horizons, cpi, un_rate, interest_rates, sheets>>

\* the loop is over: return pd.concat(all_predictions), which raises on an
\* empty list
BacktestReturn ==
    /\ pc = "backtest" /\ bt.pc = "loop"
    /\ bt.i >= Len(df)
    /\ IF ConcatRaises(bt.all_predictions)
       THEN /\ bt' = [NoFrame EXCEPT !.pc = "raised", !.start = bt.start,
                                     !.step = bt.step]
            /\ pc' = "backtest_error"
            /\ UNCHANGED predictions
       ELSE /\ bt' = [NoFrame EXCEPT !.pc = "returned", !.start = bt.start,
                                     !.step = bt.step]
            /\ pc' = "backtested"
            /\ predictions' = Concat(bt.all_predictions)
    /\ UNCHANGED <<series, df, model, calls, folds, ohlc_predictors, horizons, cpi, un_rate, interest_rates, sheets>>

\* the cell df, ohlc_predictors = create_ohlc_features(df)
CreateOhlcFeaturesCell(hs) ==
    /\ pc = "labelled"
    /\ LET out == create_ohlc_features(df, hs)
       IN  /\ df' = out.df
           /\ ohlc_predictors' = out.predictors
    /\ horizons' = hs
    /\ pc' = "featured"
    /\ UNCHANGED <<series, bt, model, calls, folds, predictions, cpi, un_rate,
                   interest_rates, sheets>>

\* the Macro Data cell: the three sheets are read and un_rate, cpi and
\* interest_rates are built
MacroDataCell(un_sheet, cpi_sheet, rate_sheet) ==
    /\ pc = "labelled"
    /\ sheets' = <<un_sheet, cpi_sheet, rate_sheet>>
    /\ un_rate' = UnRateTable(un_sheet)
    /\ cpi' = CpiTable(cpi_sheet)
    /\ interest_rates' = InterestRatesTable(rate_sheet)
    /\ pc' = "macro"
    /\ UNCHANGED <<series, df, bt, model, calls, folds, predictions,
                   ohlc_predictors, horizons>>

\* the Feature Addition cell: df = df.merge(cpi, on='date', how='left')
FeatureAddition ==
    /\ pc = "macro"
    /\ df' = MergeLeft(df, cpi)
    /\ pc' = "merged"
    /\ UNCHANGED <<series, bt, model, calls, folds, predictions,
                   ohlc_predictors, horizons, cpi, un_rate, interest_rates, sheets>>

\* Create Targets, Macro Data, then Feature Addition
NextMacro ==
    \/ CreateTargets
    \/ \E sheet \in Sheets : MacroDataCell(OneUnSheet, sheet, OneRateSheet)
    \/ FeatureAddition

SpecMacro == InitMacro /\ [][NextMacro]_vars

\* Create Targets, then Macro Data on any Fed Interest Rate sheet and on
\* Unemployment Rate and CPI sheets that list the same announcements
NextAnnouncements ==
    \/ CreateTargets
    \/ \E un_sheet \in UnSheets, rate_sheet \in RateSheets :
          MacroDataCell(un_sheet, un_sheet, rate_sheet)

SpecAnnouncements == InitAnnouncements /\ [][NextAnnouncements]_vars

\* Create Targets, then the feature cell
NextFeatures ==
    \/ CreateTargets
    \/ \E hs \in HorizonLists : CreateOhlcFeaturesCell(hs)

SpecFeatures == InitFeatures /\ [][NextFeatures]_vars

\* Create Targets, then the Backtesting cell
Next ==
    \/ CreateTargets
    \/ \E start \in 0..MaxStart, step \in 1..MaxStep : BacktestCall(start, step)
    \/ BacktestFold
    \/ \E inFit \in BOOLEAN : BacktestFoldRaises(inFit)
    \/ BacktestReturn

Spec == Init /\ [][Next]_vars

(* ------------------------------ claims -------------------------------- *)
\* the number of rows of the loaded series
N == Len(series)

\* how often row position p occurs in the test slices taken so far
TestCount(p) ==
    Cardinality({kj \in {<<k, j>> : k \in DOMAIN folds, j \in 1..MaxLen + 1} :
                    /\ kj[2] \in DOMAIN folds[kj[1]].test
                    /\ folds[kj[1]].test[kj[2]] = p})

\* the row positions a..b-1 in ascending order
Range(a, b) == [j \in 1..(IF b > a THEN b - a ELSE 0) |-> a + j - 1]

SeqSet(s) == {s[j] : j \in DOMAIN s}

\* C1: while backtest loops without a failure, the test slices taken so far
\* hold each row position of [start, min(i, N)) exactly once and no other
\* position; when backtest returns they hold each position of [start, N)
\* exactly once and no position below start (start >= 0, step >= 1, N > start).
C1_FoldsPartition ==
    (bt.pc \in {"loop", "returned"}) =>
        LET upto == IF bt.pc = "loop" THEN Min(bt.i, N) ELSE N
        IN  /\ \A p \in 0..N - 1 :
                TestCount(p) = (IF bt.start <= p /\ p < upto THEN 1 ELSE 0)
            /\ \A k \in DOMAIN folds : SeqSet(folds[k].test) \subseteq 0..N - 1
            /\ bt.pc = "returned" => N > bt.start

\* C1 witness: backtest has returned after at least two folds, the last of
\* them shorter than step
C1_Witness ==
    /\ bt.pc = "returned"
    /\ Len(folds) >= 2
    /\ Len(folds[Len(folds)].test) < bt.step

\* C2: the k-th fold taken has boundary i = start + (k-1)*step < N, its train
\* slice is exactly rows [0, i) and its test slice exactly rows
\* [i, min(i+step, N)); train and test are disjoint, every train row precedes
\* every test row, and the train slice strictly contains the one before it.
C2_FoldSlices ==
    \A k \in DOMAIN folds :
        LET f == folds[k]
        IN  /\ f.i = bt.start + (k - 1) * bt.step
            /\ f.i < N
            /\ f.train = Range(0, f.i)
            /\ f.test = Range(f.i, Min(f.i + bt.step, N))
            /\ SeqSet(f.train) \cap SeqSet(f.test) = {}
            /\ \A a \in SeqSet(f.train), b \in SeqSet(f.test) : a < b
            /\ k > 1 => /\ SeqSet(folds[k - 1].train) \subseteq SeqSet(f.train)
                        /\ SeqSet(folds[k - 1].train) # SeqSet(f.train)

\* C2 witness: start=3, step=1 on 5 rows gives train [0,3)/test [3,4) and
\* train [0,4)/test [4,5)
C2_Witness ==
    /\ bt.pc = "returned" /\ bt.start = 3 /\ bt.step = 1 /\ N = 5
    /\ folds = <<[i |-> 3, train |-> <<0, 1, 2>>, test |-> <<3>>],
                 [i |-> 4, train |-> <<0, 1, 2, 3>>, test |-> <<4>>]>>

\* C3 (as claimed): after labelling, target[t] = 1 iff close[t+1] > close[t]
\* for every row but the last, and the last row's target is neither 0 nor 1.
C3_TargetLabelling ==
    pc = "labelled" =>
        \A r \in 1..Len(df) :
            IF r < Len(df)
            THEN df[r]["target"] = (IF Gt(series[r + 1], series[r]) THEN 1 ELSE 0)
            ELSE df[r]["target"] \notin {0, 1}

\* C4 (as claimed): the final row of the price series is in no fold's train or
\* test slice and in no record of the returned prediction table.
C4_FinalRowExcluded ==
    /\ \A k \in DOMAIN folds :
          (N - 1) \notin SeqSet(folds[k].train) \cup SeqSet(folds[k].test)
    /\ pc = "backtested" =>
          \A j \in DOMAIN predictions : predictions[j].index # N - 1

(* ---------------- claims about create_ohlc_features ------------------- *)
\* the labelled table create_ohlc_features was called on
Labelled == CreateTargetsDf(PriceTable(series))

\* the horizons of the call that were not skipped
Computed == {h \in SeqSet(horizons) : h <= N}

\* the returned table holds the row with index label t
Present(t) == \E r \in DOMAIN df : df[r]["index"] = t
RowAt(t) == df[CHOOSE r \in DOMAIN df : df[r]["index"] = t]

\* the labelled table with the target of row position t set to v
WithTarget(t, v) ==
    <<>> \o [r \in 1..N |->
                IF r = t + 1 THEN ("target" :> v) @@ Labelled[r] ELSE Labelled[r]]

\* C5: for every computed horizon h and row t, Trend_h[t] is the sum of
\* target[t-h..t-1] (missing for t < h; a row dropped from the result has it
\* missing), and a call on the same table with only target[t] changed gives
\* the same Trend_h[t].
C5_TrendNoLeak ==
    pc = "featured" =>
        \A t \in 0..N - 1 :
            LET other == OhlcLoop(WithTarget(t, 1 - Labelled[t + 1]["target"]),
                                  <<>>, horizons).df[t + 1]
            IN  \A h \in Computed :
                    LET name == "Trend_" \o ToString(h)
                        sum == IF t >= h
                               THEN <<Cardinality({u \in t - h..t - 1 :
                                           Labelled[u + 1]["target"] = 1}), 1>>
                               ELSE NaN
                    IN  /\ other[name] = sum
                        /\ IF Present(t) THEN RowAt(t)[name] = sum ELSE IsNaN(sum)

\* C5 witness: a row whose Trend_2 is 2 and whose own target is 0
C5_Witness ==
    /\ pc = "featured" /\ 2 \in Computed
    /\ \E t \in 2..N - 1 :
          /\ Present(t)
          /\ RowAt(t)["Trend_2"] = <<2, 1>>
          /\ RowAt(t)["target"] = 0

\* the table just before dropna when the series' close at row position u is v
LoopWithClose(u, v) ==
    OhlcLoop(CreateTargetsDf(PriceTable([series EXCEPT ![u + 1] = v])),
             <<>>, horizons)

\* C6: every horizon-derived predictor at row t depends on close[0..t] only:
\* changing the close of one later row u (to any other price, or to missing)
\* changes neither the predictor list nor any predictor value, nor its
\* missing status, at row t.  Series that differ in several later rows are
\* linked by a chain of such single changes, each of them a state checked.
C6_NoLookAhead ==
    pc = "featured" =>
        \A u \in 1..N - 1 : \A v \in CloseSet \ {series[u + 1]} :
            LET other == LoopWithClose(u, v)
            IN  /\ other.predictors = ohlc_predictors
                /\ \A t \in 0..u - 1 : \A j \in DOMAIN ohlc_predictors :
                      LET p == ohlc_predictors[j]
                      IN  IF Present(t) THEN other.df[t + 1][p] = RowAt(t)[p]
                          ELSE IsNA(other.df[t + 1][p])

\* C6 witness: a row before the last whose shifted predictors (Trend,
\* Momentum, Cumulative_Return) are all defined for some horizon
C6_Witness ==
    /\ pc = "featured"
    /\ \E h \in Computed : \E t \in 0..N - 2 :
          /\ Present(t)
          /\ \A j \in {1, 2, 4, 5, 6, 9} : ~IsNA(RowAt(t)[HorizonPredictors(h)[j]])

\* C7: for every computed horizon h (N >= h), Close_Ratio_h is a column and
\* its value at row t >= h-1 is close[t] / (sum(close[t-h+1..t]) / h), and at
\* row t < h-1 it is missing (a row dropped from the result has it missing).
C7_CloseRatio ==
    pc = "featured" =>
        \A h \in Computed : \A t \in 0..N - 1 :
            LET name == "Close_Ratio_" \o ToString(h)
                ratio == IF t >= h - 1
                         THEN Div(series[t + 1],
                                  Div(SumRange(series, t - h + 2, t + 1), <<h, 1>>))
                         ELSE NaN
            IN  /\ \E j \in DOMAIN ohlc_predictors : ohlc_predictors[j] = name
                /\ IF Present(t) THEN RowAt(t)[name] = ratio ELSE IsNaN(ratio)

\* C7 witness: horizon 3 is computed; the row at position 1 is kept with a
\* missing ratio and a later row has a ratio other than 1
C7_Witness ==
    /\ pc = "featured" /\ 3 \in Computed
    /\ Present(1) /\ IsNaN(RowAt(1)["Close_Ratio_3"])
    /\ \E t \in 2..N - 1 :
          /\ Present(t)
          /\ ~IsNaN(RowAt(t)["Close_Ratio_3"])
          /\ RowAt(t)["Close_Ratio_3"] # One

\* none of horizon h's nine names is a predictor or a column of the result
NotAdded(h) ==
    \A j \in 1..9 :
        /\ \A k \in DOMAIN ohlc_predictors : ohlc_predictors[k] # HorizonPredictors(h)[j]
        /\ \A r \in DOMAIN df : HorizonPredictors(h)[j] \notin DOMAIN df[r]

\* C8 (as claimed): every horizon h >= series length is skipped: none of its
\* columns and none of its names is added.
C8_SkipAtLeastLength ==
    pc = "featured" => \A h \in SeqSet(horizons) : h >= N => NotAdded(h)

\* C8 (amended): every horizon h > series length is skipped without an error:
\* the call returns and none of h's columns and names is added.
C8_SkipLongerThanSeries ==
    pc = "featured" => \A h \in SeqSet(horizons) : h > N => NotAdded(h)

\* C8 witness: a call that skipped one horizon and computed another
C8_Witness ==
    /\ pc = "featured"
    /\ \E g \in SeqSet(horizons) : g > N
    /\ Computed # {}
    /\ Len(ohlc_predictors) = 9

\* C9: the result holds exactly the rows with a predictor that is not
\* missing, unchanged and in their original order.
C9_DropAllMissing ==
    pc = "featured" =>
        LET full == OhlcLoop(Labelled, <<>>, horizons)
        IN  /\ \A t \in 0..N - 1 :
                  /\ Present(t) <=>
                        \E j \in DOMAIN ohlc_predictors :
                            ~IsNA(full.df[t + 1][ohlc_predictors[j]])
                  /\ Present(t) => RowAt(t) = full.df[t + 1]
            /\ \A r \in DOMAIN df : df[r]["index"] \in 0..N - 1
            /\ \A r \in 1..Len(df) - 1 : df[r]["index"] < df[r + 1]["index"]

\* C9 witness: a row was dropped, and a kept row has a missing predictor
C9_Witness ==
    /\ pc = "featured" /\ Computed # {}
    /\ \E t \in 0..N - 1 : ~Present(t)
    /\ \E r \in DOMAIN df : \E j \in DOMAIN ohlc_predictors :
          IsNA(df[r][ohlc_predictors[j]])

(* ------------------ claims about failures and fits -------------------- *)
\* the record predict gives for row position p in the fold f
FoldRecord(f, p) ==
    [index |-> p, target |-> Labelled[p + 1]["target"],
     Predictions |-> Label(f.train, p)]

\* the tables the caller of backtest can reach: its global `predictions`
\* and, while the call lasts, the list backtest holds
Reachable == {predictions} \cup SeqSet(bt.all_predictions)

\* C11 (as claimed): after the fit or the predict of fold k has failed, the
\* records predicted in the folds 0..k-1 are still available to the caller,
\* unchanged.
C11_EarlierFoldsKept ==
    (pc = "backtest_error" /\ Len(folds) >= 2) =>
        \A k \in 1..Len(folds) - 1 : \A j \in DOMAIN folds[k].test :
            \E table \in Reachable : \E r \in DOMAIN table :
                table[r] = FoldRecord(folds[k], folds[k].test[j])

\* the fold whose test slice holds row position p
FoldOf(p) == CHOOSE k \in DOMAIN folds : p \in SeqSet(folds[k].test)

\* C12: the calls on the classifier are, fold by fold, one fit on exactly the
\* rows [0, i) followed by one predict on the fold's test rows (a fold whose
\* fit raised has no predict); no fit receives a row at position >= i; and
\* every record predicted, in backtest's list and in the returned table, was
\* produced by the fit of its own fold.
C12_FitPerFold ==
    /\ Len(calls) \in {2 * Len(folds), 2 * Len(folds) - 1}
    /\ Len(calls) # 2 * Len(folds) => pc = "backtest_error"
    /\ \A k \in DOMAIN folds :
          /\ calls[2 * k - 1] = [op |-> "fit", rows |-> Range(0, folds[k].i)]
          /\ \A j \in DOMAIN calls[2 * k - 1].rows :
                calls[2 * k - 1].rows[j] < folds[k].i
          /\ 2 * k <= Len(calls) =>
                calls[2 * k] = [op |-> "predict", rows |-> folds[k].test]
    /\ \A k \in DOMAIN bt.all_predictions :
          \A r \in DOMAIN bt.all_predictions[k] :
              bt.all_predictions[k][r].Predictions =
                  Label(Range(0, folds[k].i), folds[k].test[r])
    /\ pc = "backtested" =>
          \A r \in DOMAIN predictions :
              predictions[r].Predictions =
                  Label(Range(0, folds[FoldOf(predictions[r].index)].i),
                        predictions[r].index)

\* C12 witness: backtest returned after two folds or more, so the first and
\* the last record come from different fits
C12_Witness ==
    /\ pc = "backtested" /\ bt.start >= 1
    /\ Len(calls) >= 4
    /\ predictions[1].Predictions.fitted_on
          # predictions[Len(predictions)].Predictions.fitted_on

\* C13: the table backtest returns has exactly one record per row position of
\* [start, N), in ascending row order; each record carries the index of its
\* input row, the value of that row's target column and the label predicted
\* for that row in its fold.
C13_PredictionTable ==
    pc = "backtested" =>
        /\ Len(predictions) = N - bt.start
        /\ \A r \in DOMAIN predictions :
              /\ predictions[r].index = bt.start + r - 1
              /\ predictions[r] =
                    FoldRecord(folds[FoldOf(predictions[r].index)],
                               predictions[r].index)

\* C13 witness: a returned table of two folds whose last is one row short
\* of step, with both labels among its targets
C13_Witness ==
    /\ pc = "backtested" /\ bt.start >= 1 /\ bt.step = 2
    /\ Len(folds) = 2 /\ Len(predictions) = 3
    /\ \E r \in DOMAIN predictions : predictions[r].target = 1
    /\ \E r \in DOMAIN predictions : predictions[r].target = 0

\* C15: a call of backtest on a series with N <= start takes no fold, makes
\* no fit and no predict call, and its one step is the failing concatenation
\* of the empty list: the call ends in an error and the caller's predictions
\* are what they were, not an empty table.
C15_NoFoldsRaises ==
    [][(pc = "backtest" /\ N <= bt.start) =>
          /\ folds = <<>> /\ calls = <<>> /\ bt.all_predictions = <<>>
          /\ pc' = "backtest_error" /\ bt'.pc = "raised"
          /\ folds' = <<>> /\ calls' = <<>> /\ model' = Unfitted
          /\ predictions' = predictions /\ predictions' # <<>>]_vars

\* C15 witness: backtest has raised on a series no longer than start
C15_Witness ==
    /\ pc = "backtest_error" /\ bt.pc = "raised"
    /\ N <= bt.start /\ N >= 2
    /\ calls = <<>>

\* C16: when at least one horizon is computed and no close is missing, EMA_h
\* is defined on every row for every computed h, the drop step removes no
\* row, and the table returned has the N rows of the input in their order.
C16_EmaKeepsRows ==
    (pc = "featured" /\ Computed # {} /\ \A r \in 1..N : ~IsNaN(series[r])) =>
        /\ Len(df) = N
        /\ \A r \in 1..N :
              /\ df[r]["index"] = r - 1
              /\ \A h \in Computed : ~IsNA(df[r]["EMA_" \o ToString(h)])

\* C16 witness: a horizon h >= 2 is computed on a series without missing
\* closes, and the first row, kept, has its rolling predictors missing
C16_Witness ==
    /\ pc = "featured" /\ N >= 2 /\ \A r \in 1..N : ~IsNaN(series[r])
    /\ Len(df) = N
    /\ \E h \in Computed :
          /\ h >= 2
          /\ IsNA(df[1]["Close_Ratio_" \o ToString(h)])
          /\ IsNA(df[1]["Volatility_" \o ToString(h)])
          /\ ~IsNA(df[1]["EMA_" \o ToString(h)])

(* --------------------- claims about the macro merge ------------------- *)
\* the rows of the merged table that come from the price row of trading day d
RowsOfDate(d) == {r \in DOMAIN df : df[r]["date"] = d}

EventDates == {cpi[e].date : e \in DOMAIN cpi}

MacroNames == {"cpi_announcement", "cpi_change", "days_until_next_announcement"}

\* C10: after the left merge on date every price row is still present with
\* its own columns unchanged; a price row whose date is no event date occurs
\* once, with all macro columns missing (not zero); and a row has macro
\* values exactly when its date equals an event's date, and they are that
\* event's values.
C10_LeftMergeExactDate ==
    pc = "merged" =>
        /\ \A k \in 1..N :
              /\ RowsOfDate(PriceDate(k)) # {}
              /\ \A r \in RowsOfDate(PriceDate(k)) :
                    \A c \in {"date", "close", "tomorrow", "target"} :
                        df[r][c] = Labelled[k][c]
              /\ PriceDate(k) \notin EventDates =>
                    /\ Cardinality(RowsOfDate(PriceDate(k))) = 1
                    /\ \A r \in RowsOfDate(PriceDate(k)) : \A c \in MacroNames :
                          IsNaN(df[r][c]) /\ df[r][c] # Zero
        /\ \A r \in DOMAIN df :
              \/ \A c \in MacroNames : IsNaN(df[r][c])
              \/ \E e \in DOMAIN cpi :
                    /\ cpi[e].date = df[r]["date"]
                    /\ df[r]["cpi_announcement"] = <<cpi[e].cpi_announcement, 1>>
                    /\ df[r]["cpi_change"] = cpi[e].cpi_change
                    /\ df[r]["days_until_next_announcement"] =
                          cpi[e].days_until_next_announcement

\* C10 witness: one price row matched an event, and another, the trading day
\* next to an event's date, did not
C10_Witness ==
    /\ pc = "merged"
    /\ \E r \in DOMAIN df : df[r]["cpi_announcement"] = One
    /\ \E r \in DOMAIN df :
          /\ IsNaN(df[r]["cpi_announcement"])
          /\ df[r]["date"] + 1 \in EventDates

(* ------------------ claims about the announcement gaps ---------------- *)
\* the dates of a sheet in the order read
SheetDates(sheet, parsed) ==
    [r \in 1..Len(sheet) |->
        IF parsed THEN sheet[r].date ELSE convert_date_format(sheet[r].date)]

\* C14: un_rate and cpi keep the rows of their sheets in the order read, and
\* days_until_next_announcement of row r is date[r+1] - date[r], missing on
\* the last row; interest_rates keeps the order of its sheet too, and its
\* days_until_next_announcement of row r is date[r-1] - date[r], missing on
\* the first row.
C14_AnnouncementGaps ==
    pc = "macro" =>
        /\ \A table \in {<<un_rate, 1>>, <<cpi, 2>>} :
              LET t == table[1]
                  date == SheetDates(sheets[table[2]], FALSE)
              IN  /\ Len(t) = Len(date)
                  /\ \A r \in DOMAIN t :
                        /\ t[r].date = date[r]
                        /\ t[r].days_until_next_announcement =
                              (IF r < Len(t) THEN <<date[r + 1] - date[r], 1>>
                               ELSE NaN)
        /\ LET date == SheetDates(sheets[3], TRUE)
           IN  /\ Len(interest_rates) = Len(date)
               /\ \A r \in DOMAIN interest_rates :
                     /\ interest_rates[r].date = date[r]
                     /\ interest_rates[r].days_until_next_announcement =
                           (IF r > 1 THEN <<date[r - 1] - date[r], 1>> ELSE NaN)

\* C14 witness: sheets listed latest first, as the workbook's are: the gaps
\* of un_rate and cpi are negative and the gap of interest_rates is positive
C14_Witness ==
    /\ pc = "macro"
    /\ Len(un_rate) >= 2 /\ Len(cpi) >= 2 /\ Len(interest_rates) >= 2
    /\ un_rate[1].date > un_rate[2].date
    /\ un_rate[1].days_until_next_announcement[1] < 0
    /\ cpi[1].days_until_next_announcement[1] < 0
    /\ interest_rates[1].date > interest_rates[2].date
    /\ interest_rates[2].days_until_next_announcement[1] > 0
    /\ IsNaN(interest_rates[1].days_until_next_announcement)

=============================================================================
